---- MODULE Spec2Model ----
(***************************************************************************)
(* Model of the AI-Knowledge-Assistant backend: the rate-limited, retrying *)
(* generation client (services/gemini.py), the dual storage backend        *)
(* (services/cosmos.py, services/local_storage.py) and the ask handler     *)
(* (main.py).                                                              *)
(*                                                                         *)
(* Scheduling.  Every handler is an asyncio coroutine on one event loop.   *)
(* A coroutine runs without interruption until it really suspends; the     *)
(* only suspensions are asyncio.sleep and asyncio.to_thread in gemini.py.  *)
(* The storage functions are "async def" without any await inside, so one  *)
(* storage call is one step.  An action below is one such uninterrupted    *)
(* run of a coroutine, from one suspension point to the next.              *)
(*                                                                         *)
(* Time.  Time is counted in whole seconds.  Tick is the passing of one    *)
(* second.  Sleeps are kept as the number of seconds still to sleep; a     *)
(* sleeper may be resumed late, never early.                               *)
(***************************************************************************)
EXTENDS Integers, Sequences, FiniteSets, TLC

\* ------------------------------------------------------------------ bounds
NumCalls == 2        \* concurrent requests (tasks) of the process
MaxTime  == 1        \* wall-clock readings are 0..MaxTime; later readings read MaxTime
MaxDocs  == 2        \* documents the store holds at most
MaxMsgs  == 2        \* messages the store holds at most
MaxLegacy == 1       \* messages in the store when the process starts
NumAsk   == 1        \* concurrent /api/ask requests
MaxTs    == 4        \* the latest second a timestamp handed to the normalizer shows

\* ------------------------------------------------------- program constants
min_request_interval == 2    \* gemini.py:19  _min_request_interval = 2.0
max_retries          == 3    \* gemini.py:72
base_delay           == 3    \* gemini.py:73

Calls == 1..NumCalls

\* ------------------------------------------------------------------- texts
\* A Python str is a sequence of characters; " " is any whitespace character.
\* None is Python's None where a text is expected.
None == <<"None">>

RECURSIVE LStrip(_)
LStrip(s) == IF s # <<>> /\ Head(s) = " " THEN LStrip(Tail(s)) ELSE s

RECURSIVE RStrip(_)
RStrip(s) ==
  IF s # <<>> /\ s[Len(s)] = " " THEN RStrip(SubSeq(s, 1, Len(s) - 1)) ELSE s

\* str.strip()
Strip(s) == RStrip(LStrip(s))

\* Python's "x or ''" for a text that may be None
OrEmpty(x) == IF x = None \/ x = <<>> THEN <<>> ELSE x

\* Questions a caller may pass
Questions == { <<" ">>, <<"q">>, <<" ", "q", " ">> }

\* resp.text of a successful generate_content call
RespTexts == { None, <<" ", "a", " ">> }

\* str(e) of a failed generate_content call, as the set of its words
ErrorMsgs ==
  { {"429", "Too Many Requests"}, {"RESOURCE_EXHAUSTED"}, {"Quota", "exceeded"},
    {"Connection", "reset"} }

\* str.lower() on the words that occur in ErrorMsgs
Lower(w) == IF w = "Quota" THEN "quota" ELSE IF w = "Connection" THEN "connection" ELSE w

\* A faulty signature test: "quota" is looked for without lowering the text
IsQuotaErrorCaseSensitive(error_msg) ==
  \/ "429" \in error_msg
  \/ "RESOURCE_EXHAUSTED" \in error_msg
  \/ "quota" \in error_msg
  \/ "Too Many Requests" \in error_msg

\* gemini.py:82  the quota / rate-limit signature
IsQuotaError(error_msg) ==
  \/ "429" \in error_msg
  \/ "RESOURCE_EXHAUSTED" \in error_msg
  \/ "quota" \in { Lower(w) : w \in error_msg }
  \/ "Too Many Requests" \in error_msg

\* 2 ** attempt
RECURSIVE Pow2(_)
Pow2(n) == IF n = 0 THEN 1 ELSE 2 * Pow2(n - 1)

\* A faulty backoff: the same delay before every retry
BackoffDelayConstant(attempt) == base_delay

\* gemini.py:84 and :98  delay = base_delay * (2 ** attempt)
BackoffDelay(attempt) == base_delay * Pow2(attempt)

\* A faulty loop test: one retry too many
HasRetryLeftOffByOne(attempt) == attempt < max_retries

\* gemini.py:83 and :97  attempt < max_retries - 1
HasRetryLeft(attempt) == attempt < max_retries - 1

\* gemini.py:51  time_since_last_request < _min_request_interval
MustWait(time_since_last_request) == time_since_last_request < min_request_interval

\* A faulty wait: the whole interval, whatever has elapsed
WaitTimeFull(time_since_last_request) == min_request_interval

\* gemini.py:52  wait_time = _min_request_interval - time_since_last_request
WaitTime(time_since_last_request) == min_request_interval - time_since_last_request

\* A faulty _invoke: the text is not trimmed
InvokeTextUntrimmed(resp_text) == OrEmpty(resp_text)

\* gemini.py:70  (resp.text or "").strip()
InvokeText(resp_text) == Strip(OrEmpty(resp_text))

\* -------------------------------------------------------------- timestamps
\* A stored timestamp value.  kind says what the JSON value is:
\*   "none"     None, or the key is absent
\*   "empty"    the empty string, or a string of whitespace only
\*   "num"      a number that fromtimestamp can represent: val seconds after the epoch
\*   "num_big"  a number outside the platform's date range
\*   "iso_z"    "YYYY-MM-DDTHH:MM:SSZ" for second val: the canonical form
\*   "iso_off"  an ISO-8601 string with UTC offset off, showing local second val
\*   "numstr"   a string that float() parses, val seconds after the epoch
\*   "garbage"  any other string
\*   "num_nan"     the number NaN
\*   "iso_naive"   an ISO-8601 string without zone, showing second val of the
\*                 server's local time, which is off seconds ahead of UTC
\*   "numstr_big"  a string that float() parses to a number outside the date
\*                 range ("1e20", "inf")
\*   "numstr_nan"  the string "nan"
Ts(kind, val, off) == [kind |-> kind, val |-> val, off |-> off]

Canonical(t) == Ts("iso_z", t, 0)

\* local_storage.py:25-32, cosmos.py:47-54  _utc_now() read at clock second t
UtcNow(t) == Canonical(t)

\* A faulty normalizer: the trailing "Z" is not replaced by "+00:00", so a
\* parser that does not know the suffix rejects the canonical form, and the
\* clock is read in its place
NormalizeTimestampNoZ(value, t) ==
  CASE value.kind \in {"none", "empty", "iso_z"} -> [exc |-> "none", ts |-> UtcNow(t)]
    [] value.kind \in {"num", "numstr"}   -> [exc |-> "none", ts |-> Canonical(value.val)]
    [] value.kind \in {"num_big", "numstr_big"} -> [exc |-> "OverflowError", ts |-> value]
    [] value.kind \in {"iso_off", "iso_naive"}  ->
         [exc |-> "none", ts |-> Canonical(value.val - value.off)]
    [] value.kind = "num_nan"           -> [exc |-> "ValueError", ts |-> value]
    [] OTHER                            -> [exc |-> "none", ts |-> UtcNow(t)]

\* local_storage.py:35-60, cosmos.py:57-81  _normalize_timestamp(value) at clock
\* second t; exc is the exception that escapes, "none" when it returns
NormalizeTimestamp(value, t) ==
  CASE value.kind \in {"none", "empty"} -> [exc |-> "none", ts |-> UtcNow(t)]
    [] value.kind = "num"               -> [exc |-> "none", ts |-> Canonical(value.val)]
    [] value.kind = "num_big"           -> [exc |-> "OverflowError", ts |-> value]
    [] value.kind = "iso_z"             -> [exc |-> "none", ts |-> Canonical(value.val)]
    [] value.kind = "iso_off"           ->
         [exc |-> "none", ts |-> Canonical(value.val - value.off)]
    [] value.kind = "numstr"            -> [exc |-> "none", ts |-> Canonical(value.val)]
    [] value.kind = "num_nan"           -> [exc |-> "ValueError", ts |-> value]
    [] value.kind = "iso_naive"         ->
         [exc |-> "none", ts |-> Canonical(value.val - value.off)]
    [] value.kind = "numstr_big"        -> [exc |-> "OverflowError", ts |-> value]
    [] value.kind = "numstr_nan"        -> [exc |-> "none", ts |-> UtcNow(t)]
    [] OTHER                            -> [exc |-> "none", ts |-> UtcNow(t)]

\* The sort key item["timestamp"]: canonical strings have one fixed layout, so
\* their string order is the order of the seconds they show
TsKey(ts) == ts.val

\* ------------------------------------------------------------------ storage
Users  == {"u1", "u2"}
DocIds == {"d1", "d2"}
\* The text extracted from the k-th document handed to the store
DocText(k) == <<"text", k>>
Roles  == {"user", "assistant"}

\* Python exception classes that are ValueError or a subclass of it
\* (json.JSONDecodeError derives from ValueError)
IsValueError(exc) == exc \in {"ValueError", "JSONDecodeError"}

\* What can go wrong in the I/O of one storage call
Faults == {"none", "read_error", "open_error", "partial_write"}

\* What can go wrong in a call that only reads
ReadFaults == {"none", "read_error"}

EmptyDb == [valid |-> TRUE, documents |-> <<>>, messages |-> <<>>]

\* The file after a write that stopped part-way: open("w") has truncated it
TruncatedDb == [valid |-> FALSE, documents |-> <<>>, messages |-> <<>>]

\* local_storage.py:63-65  _load_db()
LoadDb(file, fault) ==
  IF fault = "read_error" THEN [exc |-> "OSError", db |-> EmptyDb]
  ELSE IF ~file.valid THEN [exc |-> "JSONDecodeError", db |-> EmptyDb]
  ELSE [exc |-> "none", db |-> file]

\* local_storage.py:68-70  _save_db(db): the file afterwards, and the exception
SaveDb(file, db, fault) ==
  IF fault = "open_error" THEN [exc |-> "OSError", file |-> file]
  ELSE IF fault = "partial_write" THEN [exc |-> "OSError", file |-> TruncatedDb]
  ELSE [exc |-> "none", file |-> db]

\* The result of one storage call: the exception raised ("none": it returned),
\* the value returned, and the store afterwards
Result(exc, val, file, items, nid) ==
  [exc |-> exc, val |-> val, db |-> file, container |-> items, nid |-> nid]

NoVal == "None"

SetMin(S) == CHOOSE x \in S : \A y \in S : x <= y

\* local_storage.py:96-125  save_document
LocalSaveDocument(file, items, nid, doc_id, user_id, blob_url, document_text, t, fault) ==
  LET l == LoadDb(file, fault)
      doc == [id |-> doc_id, user_id |-> user_id, file_name |-> "f.pdf",
              blob_name |-> <<user_id, "f.pdf">>, blob_url |-> blob_url,
              document_text |-> document_text, created_at |-> UtcNow(t),
              type |-> "document"]
      w == SaveDb(file, [l.db EXCEPT !.documents = Append(@, doc)], fault)
  IN  IF l.exc # "none" THEN Result(l.exc, NoVal, file, items, nid)
      ELSE Result(w.exc, NoVal, w.file, items, nid)

\* A faulty lookup: the owner is not compared
LocalDocMatchesAnyOwner(doc, user_id, doc_id) == doc.id = doc_id

\* local_storage.py:135-136  the test of the lookup loop
LocalDocMatches(doc, user_id, doc_id) == doc.user_id = user_id /\ doc.id = doc_id

\* local_storage.py:128-139  get_document_text
LocalGetDocumentText(file, items, nid, user_id, doc_id, fault) ==
  LET l == LoadDb(file, fault)
      hits == { i \in 1..Len(l.db.documents) :
                  LocalDocMatches(l.db.documents[i], user_id, doc_id) }
  IN  IF l.exc # "none" THEN Result(l.exc, NoVal, file, items, nid)
      ELSE IF hits = {} THEN Result("ValueError", NoVal, file, items, nid)
      ELSE Result("none", l.db.documents[SetMin(hits)].document_text, file, items, nid)

\* A faulty save_message: it appends to the messages it has read but rewrites
\* the file from an empty document list, as a writer working on a stale copy
\* of the file would
LocalSaveMessageStale(file, items, nid, user_id, doc_id, role, message, t, fault) ==
  LET l == LoadDb(file, fault)
      entry == [id |-> nid, type |-> "message", user_id |-> user_id,
                doc_id |-> doc_id, role |-> role, content |-> message,
                message |-> None, timestamp |-> UtcNow(t)]
      w == SaveDb(file, [EmptyDb EXCEPT !.messages = Append(l.db.messages, entry)], fault)
  IN  IF l.exc # "none" THEN Result(l.exc, NoVal, file, items, nid)
      ELSE Result(w.exc, NoVal, w.file, items, IF w.exc = "none" THEN nid + 1 ELSE nid)

\* local_storage.py:142-161  save_message; str(uuid4()) is the fresh number nid
\* (a number drawn for an entry that was never stored is free again)
LocalSaveMessage(file, items, nid, user_id, doc_id, role, message, t, fault) ==
  LET l == LoadDb(file, fault)
      entry == [id |-> nid, type |-> "message", user_id |-> user_id,
                doc_id |-> doc_id, role |-> role, content |-> message,
                message |-> None, timestamp |-> UtcNow(t)]
      w == SaveDb(file, [l.db EXCEPT !.messages = Append(@, entry)], fault)
  IN  IF l.exc # "none" THEN Result(l.exc, NoVal, file, items, nid)
      ELSE Result(w.exc, NoVal, w.file, items, IF w.exc = "none" THEN nid + 1 ELSE nid)

\* A doc_id argument that Python's "if doc_id:" takes as absent
IsFalsy(doc_id) == doc_id \in {"", "None"}

\* local_storage.py:184  entry.get("content") or entry.get("message") or ""
ContentOf(entry) ==
  IF OrEmpty(entry.content) # <<>> THEN entry.content
  ELSE IF OrEmpty(entry.message) # <<>> THEN entry.message
  ELSE <<>>

\* A faulty shaping: the text is taken from the legacy key "message"
ShapeLegacyKey(entry) ==
  [id |-> entry.id, type |-> entry.type, user_id |-> entry.user_id,
   doc_id |-> entry.doc_id, role |-> entry.role, content |-> entry.message,
   timestamp |-> entry.timestamp]

\* local_storage.py:196-206, cosmos.py:205-215  the dict handed to the caller
Shape(entry) ==
  [id |-> entry.id, type |-> entry.type, user_id |-> entry.user_id,
   doc_id |-> entry.doc_id, role |-> entry.role, content |-> entry.content,
   timestamp |-> entry.timestamp]

\* A faulty repair: every matching entry counts as updated
HealEntryAlwaysUpdated(entry, t, nid) ==
  LET noId == entry.id = 0
      n == NormalizeTimestamp(entry.timestamp, t)
  IN  [exc |-> n.exc,
       entry |-> [entry EXCEPT !.id = IF noId THEN nid ELSE @,
                               !.content = ContentOf(entry),
                               !.timestamp = n.ts,
                               !.type = IF @ = "None" THEN "message" ELSE @],
       updated |-> TRUE,
       nid |-> IF noId THEN nid + 1 ELSE nid]

\* local_storage.py:180-194  the repair of one matching entry, in memory.
\* An id that is absent or empty is the number 0; an absent type is "None".
HealEntry(entry, t, nid) ==
  LET noId == entry.id = 0
      content == ContentOf(entry)
      n == NormalizeTimestamp(entry.timestamp, t)
  IN  [exc |-> n.exc,
       entry |-> [entry EXCEPT !.id = IF noId THEN nid ELSE @,
                               !.content = content,
                               !.timestamp = n.ts,
                               !.type = IF @ = "None" THEN "message" ELSE @],
       updated |-> noId \/ entry.content # content \/ entry.timestamp # n.ts,
       nid |-> IF noId THEN nid + 1 ELSE nid]

\* A faulty filter: the document is not compared
LocalMsgMatchesAnyDoc(entry, user_id, doc_id) == entry.user_id = user_id

\* local_storage.py:177  the filter of the message loop
LocalMsgMatches(entry, user_id, doc_id) ==
  entry.user_id = user_id /\ entry.doc_id = doc_id

\* local_storage.py:176-206  the loop over db["messages"], from entry i on
RECURSIVE HealFrom(_, _, _, _, _)
HealFrom(acc, i, user_id, doc_id, t) ==
  IF i > Len(acc.msgs) THEN acc
  ELSE IF ~LocalMsgMatches(acc.msgs[i], user_id, doc_id)
    THEN HealFrom(acc, i + 1, user_id, doc_id, t)
  ELSE LET h == HealEntry(acc.msgs[i], t, acc.nid)
       IN  IF h.exc # "none" THEN [acc EXCEPT !.exc = h.exc]
           ELSE HealFrom([exc |-> "none",
                          msgs |-> [acc.msgs EXCEPT ![i] = h.entry],
                          out |-> Append(acc.out, Shape(h.entry)),
                          updated |-> acc.updated \/ h.updated,
                          nid |-> h.nid],
                         i + 1, user_id, doc_id, t)

\* list.sort(key=timestamp): x goes behind every element whose key is <= its own
RECURSIVE InsertByTimestamp(_, _)
InsertByTimestamp(sorted, x) ==
  IF sorted = <<>> THEN <<x>>
  ELSE IF TsKey(x.timestamp) < TsKey(sorted[Len(sorted)].timestamp)
    THEN Append(InsertByTimestamp(SubSeq(sorted, 1, Len(sorted) - 1), x),
                sorted[Len(sorted)])
  ELSE Append(sorted, x)

\* local_storage.py:208, cosmos.py:217  a stable sort, ascending by timestamp
RECURSIVE SortByTimestamp(_)
SortByTimestamp(s) ==
  IF s = <<>> THEN <<>>
  ELSE InsertByTimestamp(SortByTimestamp(SubSeq(s, 1, Len(s) - 1)), s[Len(s)])

\* local_storage.py:225-235  the summary of one document
LocalSummary(doc, created_at) ==
  [id |-> doc.id, type |-> doc.type, user_id |-> doc.user_id,
   file_name |-> doc.file_name, blob_name |-> doc.blob_name,
   blob_url |-> doc.blob_url, created_at |-> created_at]

\* local_storage.py:216-235  the loop over db["documents"], from document i on
RECURSIVE HealDocsFrom(_, _, _, _)
HealDocsFrom(acc, i, user_id, t) ==
  IF i > Len(acc.docs) THEN acc
  ELSE IF acc.docs[i].user_id # user_id THEN HealDocsFrom(acc, i + 1, user_id, t)
  ELSE LET n == NormalizeTimestamp(acc.docs[i].created_at, t)
       IN  IF n.exc # "none" THEN [acc EXCEPT !.exc = n.exc]
           ELSE HealDocsFrom([exc |-> "none",
                              docs |-> [acc.docs EXCEPT ![i].created_at = n.ts],
                              out |-> Append(acc.out, LocalSummary(acc.docs[i], n.ts)),
                              updated |-> acc.updated \/ acc.docs[i].created_at # n.ts],
                             i + 1, user_id, t)

\* local_storage.py:164-240  get_history
LocalGetHistory(file, items, nid, user_id, doc_id, t, fault) ==
  LET l == LoadDb(file, fault)
      m == HealFrom([exc |-> "none", msgs |-> l.db.messages, out |-> <<>>,
                     updated |-> FALSE, nid |-> nid], 1, user_id, doc_id, t)
      d == HealDocsFrom([exc |-> "none", docs |-> l.db.documents, out |-> <<>>,
                         updated |-> FALSE], 1, user_id, t)
      wm == SaveDb(file, [l.db EXCEPT !.messages = m.msgs], fault)
      wd == SaveDb(file, [l.db EXCEPT !.documents = d.docs], fault)
  IN  IF l.exc # "none" THEN Result(l.exc, NoVal, file, items, nid)
      ELSE IF ~IsFalsy(doc_id) THEN
        IF m.exc # "none" THEN Result(m.exc, NoVal, file, items, nid)
        ELSE IF ~m.updated THEN Result("none", SortByTimestamp(m.out), file, items, m.nid)
        ELSE IF wm.exc # "none" THEN Result(wm.exc, NoVal, wm.file, items, m.nid)
        ELSE Result("none", SortByTimestamp(m.out), wm.file, items, m.nid)
      ELSE
        IF d.exc # "none" THEN Result(d.exc, NoVal, file, items, nid)
        ELSE IF ~d.updated THEN Result("none", d.out, file, items, nid)
        ELSE IF wd.exc # "none" THEN Result(wd.exc, NoVal, wd.file, items, nid)
        ELSE Result("none", d.out, wd.file, items, nid)

\* ------------------------------------------------------------------- remote
\* The Cosmos container is one collection of items, each tagged with "type".
\* Items are kept in the order they were created; a query yields its matches
\* in that order.  The partition key is the owner (main.py:194 queries one
\* user without crossing partitions), so an id is unique within one user.

\* container.create_item(item): the collection afterwards, and the exception
CreateItem(items, item, fault) ==
  IF fault # "none" THEN [exc |-> "CosmosHttpResponseError", items |-> items]
  ELSE IF \E i \in 1..Len(items) :
            /\ items[i].type = item.type
            /\ items[i].user_id = item.user_id
            /\ items[i].id = item.id
    THEN [exc |-> "CosmosResourceExistsError", items |-> items]
  ELSE [exc |-> "none", items |-> Append(items, item)]

\* cosmos.py:95-124  save_document, remote branch
CosmosSaveDocument(file, items, nid, doc_id, user_id, blob_url, document_text, t, fault) ==
  LET item == [id |-> doc_id, user_id |-> user_id, file_name |-> "f.pdf",
               blob_name |-> <<user_id, "f.pdf">>, blob_url |-> blob_url,
               document_text |-> document_text, created_at |-> UtcNow(t),
               type |-> "document"]
      c == CreateItem(items, item, fault)
  IN  Result(c.exc, NoVal, file, c.items, nid)

\* cosmos.py:134-137  WHERE c.id=@id AND c.user_id=@user AND c.type='document'
CosmosDocMatches(item, user_id, doc_id) ==
  item.type = "document" /\ item.id = doc_id /\ item.user_id = user_id

\* cosmos.py:127-146  get_document_text, remote branch
CosmosGetDocumentText(file, items, nid, user_id, doc_id, fault) ==
  LET Hit(item) == CosmosDocMatches(item, user_id, doc_id)
      results == SelectSeq(items, Hit)
  IN  IF fault # "none" THEN Result("CosmosHttpResponseError", NoVal, file, items, nid)
      ELSE IF results = <<>> THEN Result("ValueError", NoVal, file, items, nid)
      ELSE Result("none", results[1].document_text, file, items, nid)

\* cosmos.py:153-174  save_message, remote branch; os.urandom(4).hex() is the
\* fresh number nid
CosmosSaveMessage(file, items, nid, user_id, doc_id, role, message, t, fault) ==
  LET item == [id |-> <<doc_id, role, nid>>, user_id |-> user_id, doc_id |-> doc_id,
               type |-> "message", role |-> role, content |-> message,
               message |-> message, timestamp |-> UtcNow(t)]
      c == CreateItem(items, item, fault)
  IN  Result(c.exc, NoVal, file, c.items, IF fault = "none" THEN nid + 1 ELSE nid)

\* cosmos.py:184-187  WHERE c.user_id=@user AND c.doc_id=@doc AND c.type='message'
CosmosMsgMatches(item, user_id, doc_id) ==
  item.type = "message" /\ item.user_id = user_id /\ item.doc_id = doc_id

\* cosmos.py:204-215  the shaping loop; the first exception ends it
RECURSIVE ShapeMessages(_, _)
ShapeMessages(results, t) ==
  IF results = <<>> THEN [exc |-> "none", out |-> <<>>]
  ELSE LET item == Head(results)
           n == NormalizeTimestamp(item.timestamp, t)
           rest == ShapeMessages(Tail(results), t)
       IN  IF n.exc # "none" THEN [exc |-> n.exc, out |-> <<>>]
           ELSE IF rest.exc # "none" THEN rest
           ELSE [exc |-> "none",
                 out |-> <<[id |-> item.id, type |-> item.type, user_id |-> item.user_id,
                            doc_id |-> item.doc_id, role |-> item.role,
                            content |-> ContentOf(item), timestamp |-> n.ts]>>
                         \o rest.out]

\* cosmos.py:221-232  the document summaries
RECURSIVE ShapeDocuments(_, _)
ShapeDocuments(results, t) ==
  IF results = <<>> THEN [exc |-> "none", out |-> <<>>]
  ELSE LET item == Head(results)
           n == NormalizeTimestamp(item.created_at, t)
           rest == ShapeDocuments(Tail(results), t)
       IN  IF n.exc # "none" THEN [exc |-> n.exc, out |-> <<>>]
           ELSE IF rest.exc # "none" THEN rest
           ELSE [exc |-> "none",
                 out |-> <<[id |-> item.id, type |-> item.type, user_id |-> item.user_id,
                            file_name |-> item.file_name, blob_name |-> item.blob_name,
                            blob_url |-> item.blob_url, created_at |-> n.ts]>>
                         \o rest.out]

\* cosmos.py:177-238  get_history, remote branch
CosmosGetHistory(file, items, nid, user_id, doc_id, t, fault) ==
  LET IsMsg(item) == CosmosMsgMatches(item, user_id, doc_id)
      IsDoc(item) == item.type = "document" /\ item.user_id = user_id
      m == ShapeMessages(SelectSeq(items, IsMsg), t)
      d == ShapeDocuments(SelectSeq(items, IsDoc), t)
  IN  IF fault # "none" THEN Result("CosmosHttpResponseError", NoVal, file, items, nid)
      ELSE IF ~IsFalsy(doc_id) THEN
        IF m.exc # "none" THEN Result(m.exc, NoVal, file, items, nid)
        ELSE Result("none", SortByTimestamp(m.out), file, items, nid)
      ELSE
        IF d.exc # "none" THEN Result(d.exc, NoVal, file, items, nid)
        ELSE Result("none", d.out, file, items, nid)

\* ------------------------------------------------------------------- facade
\* cosmos.py:104-107  save_document
SaveDocument(local, file, items, nid, doc_id, user_id, blob_url, document_text, t, fault) ==
  IF local
    THEN LocalSaveDocument(file, items, nid, doc_id, user_id, blob_url, document_text, t, fault)
  ELSE CosmosSaveDocument(file, items, nid, doc_id, user_id, blob_url, document_text, t, fault)

\* A faulty lookup: a document that is not found reads as the empty text
GetDocumentTextOrEmpty(local, file, items, nid, user_id, doc_id, fault) ==
  LET r == IF local THEN LocalGetDocumentText(file, items, nid, user_id, doc_id, fault)
           ELSE CosmosGetDocumentText(file, items, nid, user_id, doc_id, fault)
  IN  IF r.exc = "ValueError" THEN [r EXCEPT !.exc = "none", !.val = <<>>] ELSE r

\* cosmos.py:130-131  get_document_text
GetDocumentText(local, file, items, nid, user_id, doc_id, fault) ==
  IF local THEN LocalGetDocumentText(file, items, nid, user_id, doc_id, fault)
  ELSE CosmosGetDocumentText(file, items, nid, user_id, doc_id, fault)

\* cosmos.py:156-157  save_message
SaveMessage(local, file, items, nid, user_id, doc_id, role, message, t, fault) ==
  IF local THEN LocalSaveMessage(file, items, nid, user_id, doc_id, role, message, t, fault)
  ELSE CosmosSaveMessage(file, items, nid, user_id, doc_id, role, message, t, fault)

\* cosmos.py:179-180  get_history
GetHistory(local, file, items, nid, user_id, doc_id, t, fault) ==
  IF local THEN LocalGetHistory(file, items, nid, user_id, doc_id, t, fault)
  ELSE CosmosGetHistory(file, items, nid, user_id, doc_id, t, fault)

\* ------------------------------------------------------------ configuration
\* cosmos.py:23-26  the settings read with os.getenv
Settings == {"COSMOS_URL", "COSMOS_KEY", "COSMOS_DB", "COSMOS_CONTAINER"}

\* storage.py:14-22, main.py:32-40  the settings REQUIRED_AZURE_ENV_VARS names
\* besides those four
BlobSettings == {"AZURE_BLOB_CONNECTION_STRING", "AZURE_BLOB_CONTAINER", "ALLOWED_ORIGIN"}

\* An environment at process start: the Cosmos settings that are present and
\* not empty, whether the construction of the Cosmos client succeeds in it,
\* and the other settings that are present and not empty
AllEnvs == [present : SUBSET Settings, connects : BOOLEAN, blob : SUBSET BlobSettings]

\* The environments in which the other settings are all present
Envs == { e \in AllEnvs : e.blob = BlobSettings }

\* No setting is present / all are and the account can be reached
DevEnv  == [present |-> {}, connects |-> FALSE, blob |-> {}]
ProdEnv == [present |-> Settings, connects |-> TRUE, blob |-> BlobSettings]

\* cosmos.py:29  not all([COSMOS_URL, COSMOS_KEY, COSMOS_DB, COSMOS_CONTAINER])
AnyMissing(e) == e.present # Settings

\* cosmos.py:29-44  USE_LOCAL_MODE once the module is imported
UseLocalMode(e) ==
  IF AnyMissing(e) THEN TRUE
  ELSE IF e.connects THEN FALSE
  ELSE TRUE

\* storage.py:25  any(not os.getenv(name) for name in REQUIRED_AZURE_ENV_VARS)
StorageUseLocalMode(e) == e.present # Settings \/ e.blob # BlobSettings

\* storage.py:67-104  upload_to_blob: the blob_url it returns, the path of a
\* local file (local_storage.py:91) or the URL of the blob (storage.py:101)
UploadToBlob(e, doc_id, user_id) ==
  IF StorageUseLocalMode(e) THEN <<"file", user_id, "f.pdf">>
  ELSE <<"https", user_id, "f.pdf">>

\* ------------------------------------------------------------------- state
VARIABLES
  now,          \* time.time() / datetime.now(), whole seconds
  sinceLast,    \* time.time() - _last_request_time, counted up to _min_request_interval
  calls,        \* per task: the position and locals of its get_gemini_response call
  req,          \* per task: the request it serves and the response it has sent
  useLocal,     \* cosmos.USE_LOCAL_MODE
  env,          \* the environment the process was started in
  db,           \* the content of local_db.json
  container,    \* the items of the Cosmos container
  nextId,       \* the next fresh random identifier (uuid4 / urandom)
  ret,          \* what the last direct call of a storage function returned or raised
  obs,          \* per task: what an observer of its generation call has seen
  saved         \* the save calls that returned without an exception

vars == <<now, sinceLast, calls, req, useLocal, env, db, container, nextId, ret, obs, saved>>

genVars   == <<sinceLast, calls, obs>>
storeVars == <<db, container, nextId, saved>>

NoErr == {}

IdleCall ==
  [pc |-> "idle", attempt |-> 0, timer |-> 0, outcome |-> "pending",
   text |-> <<>>, err |-> NoErr]

NoObs ==
  [invocations |-> 0, quotaFails |-> 0, slept |-> 0, rlSlept |-> 0,
   sinceAtCheck |-> 0 - 1, gateAge |-> 0 - 1, inflight |-> 0, resp |-> <<>>,
   overtaken |-> FALSE]

IdleReq ==
  [handler |-> "idle", user_id |-> "None", doc_id |-> "None", question |-> <<>>,
   status |-> 0, answer |-> <<>>, read |-> "none"]

NoRet == [op |-> "none", user_id |-> "None", doc_id |-> "None", exc |-> "none", val |-> NoVal]

Min(a, b) == IF a < b THEN a ELSE b

\* ------------------------------------------------- the generation client
\* gemini.py:56 and :75-77  _last_request_time = time.time(), then the first
\* pass of the retry loop hands _invoke to a thread
PassGate(call, ob) ==
  [call |-> [call EXCEPT !.pc = "invoke", !.attempt = 0, !.timer = 0],
   ob |-> [ob EXCEPT !.gateAge = 0, !.invocations = @ + 1, !.inflight = @ + 1],
   since |-> 0]

\* A faulty entry: the question is not validated
EnterGeminiUnvalidated(call, ob, since, question) ==
  IF MustWait(since)
    THEN [call |-> [call EXCEPT !.pc = "rl_sleep", !.timer = WaitTime(since)],
          ob |-> [ob EXCEPT !.sinceAtCheck = since, !.rlSlept = WaitTime(since)],
          since |-> since]
  ELSE LET p == PassGate(call, [ob EXCEPT !.sinceAtCheck = since]) IN p

\* gemini.py:42-56  get_gemini_response up to its first suspension
EnterGemini(call, ob, since, question) ==
  IF Strip(question) = <<>>
    THEN [call |-> [call EXCEPT !.pc = "done", !.outcome = "value_error"],
          ob |-> ob, since |-> since]
  ELSE IF MustWait(since)
    THEN [call |-> [call EXCEPT !.pc = "rl_sleep", !.timer = WaitTime(since)],
          ob |-> [ob EXCEPT !.sinceAtCheck = since, !.rlSlept = WaitTime(since)],
          since |-> since]
  ELSE LET p == PassGate(call, [ob EXCEPT !.sinceAtCheck = since]) IN p

\* gemini.py:56  when call c assigns _last_request_time, the calls asleep at
\* the gate have been overtaken: the time they read is no longer the last one
Overtake(o, c, passed) ==
  IF passed
    THEN [d \in Calls |->
            IF d # c /\ calls[d].pc = "rl_sleep" THEN [o[d] EXCEPT !.overtaken = TRUE]
            ELSE o[d]]
  ELSE o

\* What one run of _invoke can end in
InvokeResults ==
  [ok : {TRUE}, text : RespTexts, err : {NoErr}] \cup
  [ok : {FALSE}, text : {<<>>}, err : ErrorMsgs]

\* gemini.py:76-102  one pass of the retry loop, from the return of the thread
AfterInvoke(call, ob, r) ==
  LET back == [ob EXCEPT !.inflight = @ - 1, !.resp = r.text]
      quota == IsQuotaError(r.err)
      failed == [back EXCEPT !.quotaFails = IF quota THEN @ + 1 ELSE @]
  IN  IF r.ok
        THEN [call |-> [call EXCEPT !.pc = "done", !.outcome = "success",
                                    !.text = InvokeText(r.text)],
              ob |-> back]
      ELSE IF HasRetryLeft(call.attempt)
        THEN [call |-> [call EXCEPT !.pc = "backoff",
                                    !.timer = BackoffDelay(call.attempt)],
              ob |-> [failed EXCEPT !.slept = @ + BackoffDelay(call.attempt)]]
      ELSE [call |-> [call EXCEPT !.pc = "done",
                                  !.outcome = IF quota THEN "quota_exhausted"
                                              ELSE "generation_failed",
                                  !.err = r.err],
            ob |-> failed]

\* gemini.py:75-77, after "continue": the next pass hands _invoke to a thread
NextAttempt(call, ob) ==
  [call |-> [call EXCEPT !.pc = "invoke", !.attempt = @ + 1],
   ob |-> [ob EXCEPT !.invocations = @ + 1, !.inflight = @ + 1]]

\* main.py:138-150  ask_question from the end of the generation call
\* (res is the save of the assistant message)
AskStatusAfter(call, res) ==
  IF call.outcome = "success" THEN (IF res.exc = "none" THEN 200 ELSE 500)
  ELSE IF call.outcome \in {"quota_exhausted", "generation_failed"} THEN 503
  ELSE 502

\* The record of the saves that returned: documents by (id, user), messages by
\* their fresh number
AckDoc(s, res, doc_id, user_id) ==
  IF res.exc = "none"
    THEN [s EXCEPT !.docs = @ \cup {[id |-> doc_id, user_id |-> user_id]}]
  ELSE s

\* The text each save_document call that returned was given
AckText(s, res, doc_id, user_id, document_text) ==
  IF res.exc = "none"
    THEN [s EXCEPT !.texts = @ \cup {[id |-> doc_id, user_id |-> user_id,
                                       text |-> document_text]}]
  ELSE s

AckMsg(s, res, n, user_id, doc_id, role) ==
  IF res.exc = "none"
    THEN [s EXCEPT !.msgs = @ \cup {[n |-> n, user_id |-> user_id, doc_id |-> doc_id,
                                     role |-> role]}]
  ELSE s

\* A faulty handler: the text of the call is saved as the assistant's message
\* whatever the outcome of the call
FinishSavesAlways(c, out, fault) ==
  LET res == SaveMessage(useLocal, db, container, nextId, req[c].user_id,
                         req[c].doc_id, "assistant", out.call.text, now, fault)
  IN  /\ calls' = [calls EXCEPT ![c] = out.call]
      /\ obs' = [obs EXCEPT ![c] = out.ob]
      /\ IF out.call.pc = "done" /\ req[c].handler = "ask"
           THEN /\ db' = res.db
                /\ container' = res.container
                /\ nextId' = res.nid
                /\ saved' = AckMsg(saved, res, nextId, req[c].user_id,
                                   req[c].doc_id, "assistant")
                /\ req' = [req EXCEPT ![c].status = AskStatusAfter(out.call, res),
                                      ![c].answer = IF res.exc = "none"
                                                    THEN out.call.text ELSE @]
         ELSE UNCHANGED <<req, storeVars>>

\* The end of a generation call, back in its caller
Finish(c, out, fault) ==
  LET res == SaveMessage(useLocal, db, container, nextId, req[c].user_id,
                         req[c].doc_id, "assistant", out.call.text, now, fault)
  IN  /\ calls' = [calls EXCEPT ![c] = out.call]
      /\ obs' = [obs EXCEPT ![c] = out.ob]
      /\ IF out.call.pc = "done" /\ req[c].handler = "ask"
           THEN IF out.call.outcome = "success"
                  THEN /\ db' = res.db
                       /\ container' = res.container
                       /\ nextId' = res.nid
                       /\ saved' = AckMsg(saved, res, nextId, req[c].user_id,
                                          req[c].doc_id, "assistant")
                       /\ req' = [req EXCEPT ![c].status = AskStatusAfter(out.call, res),
                                             ![c].answer = IF res.exc = "none"
                                                           THEN out.call.text ELSE @]
                ELSE /\ req' = [req EXCEPT ![c].status = AskStatusAfter(out.call, res)]
                     /\ UNCHANGED storeVars
         ELSE UNCHANGED <<req, storeVars>>

\* get_gemini_response(document_text, question) called on task c
GetGeminiResponse(c, question) ==
  /\ req[c].handler = "idle"
  /\ \A b \in Calls : b < c => req[b].handler # "idle"
  /\ LET e == EnterGemini(calls[c], obs[c], sinceLast, question)
     IN  /\ calls' = [calls EXCEPT ![c] = e.call]
         /\ obs' = Overtake([obs EXCEPT ![c] = e.ob], c, e.call.pc = "invoke")
         /\ sinceLast' = e.since
  /\ req' = [req EXCEPT ![c].handler = "gen", ![c].question = Strip(question)]
  /\ ret' = NoRet
  /\ UNCHANGED <<now, useLocal, env, storeVars>>

\* gemini.py:54-56  the rate-limit sleep is over
GateWake(c) ==
  /\ calls[c].pc = "rl_sleep"
  /\ calls[c].timer = 0
  /\ LET p == PassGate(calls[c], obs[c])
     IN  /\ calls' = [calls EXCEPT ![c] = p.call]
         /\ obs' = Overtake([obs EXCEPT ![c] = p.ob], c, TRUE)
         /\ sinceLast' = p.since
  /\ ret' = NoRet
  /\ UNCHANGED <<now, req, useLocal, env, storeVars>>

\* gemini.py:77-102  the thread running _invoke returns or raises
AttemptReturn(c, r, fault) ==
  /\ calls[c].pc = "invoke"
  /\ Finish(c, AfterInvoke(calls[c], obs[c], r), fault)
  /\ ret' = NoRet
  /\ UNCHANGED <<now, sinceLast, useLocal, env>>

\* gemini.py:86-87 and :99-100  the backoff sleep is over
BackoffWake(c) ==
  /\ calls[c].pc = "backoff"
  /\ calls[c].timer = 0
  /\ LET n == NextAttempt(calls[c], obs[c])
     IN  /\ calls' = [calls EXCEPT ![c] = n.call]
         /\ obs' = [obs EXCEPT ![c] = n.ob]
  /\ ret' = NoRet
  /\ UNCHANGED <<now, sinceLast, req, useLocal, env, storeVars>>

\* The caller of task c has its result; the task slot serves the next request
Retire(c) ==
  /\ \/ req[c].handler = "gen" /\ calls[c].pc = "done"
     \/ req[c].handler = "ask" /\ req[c].status # 0
  /\ calls' = [calls EXCEPT ![c] = IdleCall]
  /\ obs' = [obs EXCEPT ![c] = NoObs]
  /\ req' = [req EXCEPT ![c] = IdleReq]
  /\ ret' = NoRet
  /\ UNCHANGED <<now, sinceLast, useLocal, env, storeVars>>

\* One second passes
Tick ==
  /\ ret = NoRet
  /\ now' = Min(now + 1, MaxTime)
  /\ sinceLast' = Min(sinceLast + 1, min_request_interval)
  /\ calls' = [c \in Calls |->
                 [calls[c] EXCEPT !.timer = IF @ > 0 THEN @ - 1 ELSE 0]]
  /\ obs' = [c \in Calls |->
               [obs[c] EXCEPT !.gateAge = IF @ >= 0 THEN Min(@ + 1, min_request_interval)
                                          ELSE @]]
  /\ ret' = NoRet
  /\ UNCHANGED <<req, useLocal, env, storeVars>>

\* ---------------------------------------------------------- initial states
InitGen ==
  /\ now = 0
  /\ sinceLast = min_request_interval   \* _last_request_time = 0.0: long ago
  /\ calls = [c \in Calls |-> IdleCall]
  /\ obs = [c \in Calls |-> NoObs]
  /\ req = [c \in Calls |-> IdleReq]
  /\ ret = NoRet
  /\ nextId = 1
  /\ saved = [docs |-> {}, msgs |-> {}, texts |-> {}]

\* Messages written by an earlier version or by hand, as the process may find
\* them in the store at its start: without id, with the text under the legacy
\* key "message", with timestamps in other forms
LegacyMsgs ==
  { [id |-> 0, type |-> "None", user_id |-> "u1", doc_id |-> "d1", role |-> "user",
     content |-> None, message |-> <<"q">>, timestamp |-> Ts("none", 0, 0)],
    [id |-> 101, type |-> "message", user_id |-> "u1", doc_id |-> "d1",
     role |-> "assistant", content |-> <<"a">>, message |-> None,
     timestamp |-> Ts("num", 3, 0)],
    [id |-> 102, type |-> "message", user_id |-> "u1", doc_id |-> "d1", role |-> "user",
     content |-> <<"q">>, message |-> None, timestamp |-> Ts("iso_off", 2, 1)],
    [id |-> 103, type |-> "message", user_id |-> "u1", doc_id |-> "d1", role |-> "user",
     content |-> <<"q">>, message |-> None, timestamp |-> Ts("num_big", 0, 0)] }

\* The sequences without repetition of at most n elements of S
RECURSIVE SeqsUpTo(_, _)
SeqsUpTo(S, n) ==
  IF n = 0 THEN {<<>>}
  ELSE LET shorter == SeqsUpTo(S, n - 1)
           longer == { Append(q, x) : q \in { r \in shorter : Len(r) = n - 1 }, x \in S }
       IN  shorter \cup { e \in longer : \A i \in 1..(n - 1) : e[i] # e[n] }

\* A legacy message as an item of the Cosmos container (an item always has an id)
AsItem(entry) ==
  [entry EXCEPT !.id = <<entry.doc_id, entry.role, entry.id>>,
                !.type = "message"]

Init ==
  /\ InitGen
  /\ env \in {DevEnv, ProdEnv}
  /\ useLocal = UseLocalMode(env)
  /\ \E legacy \in SeqsUpTo(LegacyMsgs, MaxLegacy) :
       /\ db = IF useLocal THEN [EmptyDb EXCEPT !.messages = legacy] ELSE EmptyDb
       /\ container = IF useLocal THEN <<>>
                      ELSE [i \in 1..Len(legacy) |-> AsItem(legacy[i])]

\* --------------------------------------------------- calls of the storage
IsDocItem(item) == item.type = "document"
IsMsgItem(item) == item.type = "message"

DocCount ==
  IF useLocal THEN Len(db.documents) ELSE Len(SelectSeq(container, IsDocItem))

MsgCount ==
  IF useLocal THEN Len(db.messages) ELSE Len(SelectSeq(container, IsMsgItem))

Returned(op, user_id, doc_id, res) ==
  [op |-> op, user_id |-> user_id, doc_id |-> doc_id, exc |-> res.exc, val |-> res.val]

\* main.py:110  a handler calls save_document
SaveDocumentCall(doc_id, user_id, document_text, fault) ==
  /\ ret = NoRet
  /\ DocCount < MaxDocs
  /\ LET res == SaveDocument(useLocal, db, container, nextId, doc_id, user_id,
                             UploadToBlob(env, doc_id, user_id), document_text, now, fault)
     IN  /\ db' = res.db
         /\ container' = res.container
         /\ nextId' = res.nid
         /\ saved' = AckText(AckDoc(saved, res, doc_id, user_id), res, doc_id, user_id,
                             document_text)
         /\ ret' = Returned("save_document", user_id, doc_id, res)
  /\ UNCHANGED <<now, genVars, req, useLocal, env>>

\* main.py:129  a handler calls get_document_text
GetDocumentTextCall(user_id, doc_id, fault) ==
  /\ ret = NoRet
  /\ LET res == GetDocumentText(useLocal, db, container, nextId, user_id, doc_id, fault)
     IN  /\ db' = res.db
         /\ container' = res.container
         /\ nextId' = res.nid
         /\ ret' = Returned("get_document_text", user_id, doc_id, res)
  /\ UNCHANGED <<now, genVars, req, useLocal, env, saved>>

\* The text a caller saves under a role
TextOf(role) == IF role = "user" THEN <<"q">> ELSE <<"a">>

\* main.py:136 and :148  a handler calls save_message
SaveMessageCall(user_id, doc_id, role, fault) ==
  /\ ret = NoRet
  /\ MsgCount < MaxMsgs
  /\ LET res == SaveMessage(useLocal, db, container, nextId, user_id, doc_id, role,
                            TextOf(role), now, fault)
     IN  /\ db' = res.db
         /\ container' = res.container
         /\ nextId' = res.nid
         /\ saved' = AckMsg(saved, res, nextId, user_id, doc_id, role)
         /\ ret' = Returned("save_message", user_id, doc_id, res)
  /\ UNCHANGED <<now, genVars, req, useLocal, env>>

\* main.py:158  a handler calls get_history
GetHistoryCall(user_id, doc_id, fault) ==
  /\ ret = NoRet
  /\ LET res == GetHistory(useLocal, db, container, nextId, user_id, doc_id, now, fault)
     IN  /\ db' = res.db
         /\ container' = res.container
         /\ nextId' = res.nid
         /\ ret' = Returned("get_history", user_id, doc_id, res)
  /\ UNCHANGED <<now, genVars, req, useLocal, env, saved>>

\* main.py:173-180  the dict list_documents builds from a summary;
\* main.py:185-189  the projection SELECT c.id, c.file_name, c.blob_url, c.created_at
ListedDoc(doc) ==
  [id |-> doc.id, file_name |-> doc.file_name, blob_url |-> doc.blob_url,
   created_at |-> doc.created_at]

RECURSIVE ListedDocs(_)
ListedDocs(docs) ==
  IF docs = <<>> THEN <<>> ELSE <<ListedDoc(Head(docs))>> \o ListedDocs(Tail(docs))

\* main.py:166-196  list_documents: in Local mode from the summaries of
\* local get_history(user_id), in Remote mode from a query of its own
ListDocuments(local, file, items, nid, user_id, t, fault) ==
  LET h == LocalGetHistory(file, items, nid, user_id, "None", t, fault)
      IsDoc(item) == item.type = "document" /\ item.user_id = user_id
  IN  IF local
        THEN [h EXCEPT !.val = IF h.exc = "none" THEN ListedDocs(@) ELSE @]
      ELSE IF fault # "none" THEN Result("CosmosHttpResponseError", NoVal, file, items, nid)
      ELSE Result("none", ListedDocs(SelectSeq(items, IsDoc)), file, items, nid)

\* GET /api/documents
ListDocumentsCall(user_id, fault) ==
  /\ ret = NoRet
  /\ LET res == ListDocuments(useLocal, db, container, nextId, user_id, now, fault)
     IN  /\ db' = res.db
         /\ container' = res.container
         /\ nextId' = res.nid
         /\ ret' = Returned("list_documents", user_id, "None", res)
  /\ UNCHANGED <<now, genVars, req, useLocal, env, saved>>

\* The handler hands the result of its storage call to its client
Respond ==
  /\ ret # NoRet
  /\ ret' = NoRet
  /\ UNCHANGED <<now, genVars, req, useLocal, env, storeVars>>

\* ------------------------------------------------------------ the handlers
\* The documents of the active backend, as (id, user_id, document_text)
StoredDocs ==
  IF useLocal
    THEN { [id |-> db.documents[i].id, user_id |-> db.documents[i].user_id,
            document_text |-> db.documents[i].document_text] :
           i \in 1..Len(db.documents) }
  ELSE { [id |-> container[i].id, user_id |-> container[i].user_id,
          document_text |-> container[i].document_text] :
         i \in { j \in 1..Len(container) : IsDocItem(container[j]) } }

\* What really happened to the read of the store in a get_document_text call
\* with this fault: it failed, or it found or did not find the document
ReadOutcome(user_id, doc_id, fault) ==
  IF useLocal /\ (fault = "read_error" \/ ~db.valid) THEN "failed"
  ELSE IF ~useLocal /\ fault # "none" THEN "failed"
  ELSE IF \E doc \in StoredDocs : doc.id = doc_id /\ doc.user_id = user_id THEN "found"
  ELSE "missing"

\* main.py:128-134  the response to an exception of get_document_text
LoadFailureStatus(exc) == IF IsValueError(exc) THEN 404 ELSE 500

\* main.py:122-139  ask_question up to its first suspension.  f1 and f2 are
\* what goes wrong in get_document_text and in the save of the user's message.
\* An exception of save_message is not caught: the framework answers 500.
AskQuestion(c, user_id, doc_id, raw, f1, f2) ==
  LET question == Strip(raw)
      got == GetDocumentText(useLocal, db, container, nextId, user_id, doc_id, f1)
      put == SaveMessage(useLocal, db, container, nextId, user_id, doc_id, "user",
                         question, now, f2)
      e == EnterGemini(calls[c], obs[c], sinceLast, question)
      r == [req[c] EXCEPT !.handler = "ask", !.user_id = user_id, !.doc_id = doc_id,
                          !.question = question]
  IN  /\ req[c].handler = "idle"
      /\ \A b \in 1..NumAsk : b < c => req[b].handler # "idle"
      /\ MsgCount < MaxMsgs
      /\ ret' = NoRet
      /\ UNCHANGED <<now, useLocal, env>>
      /\ IF question = <<>>
           THEN /\ req' = [req EXCEPT ![c] = [r EXCEPT !.status = 400]]
                /\ UNCHANGED <<genVars, storeVars>>
         ELSE IF got.exc # "none"
           THEN /\ req' = [req EXCEPT ![c] =
                             [r EXCEPT !.status = LoadFailureStatus(got.exc),
                                       !.read = ReadOutcome(user_id, doc_id, f1)]]
                /\ UNCHANGED <<genVars, storeVars>>
         ELSE /\ db' = put.db
              /\ container' = put.container
              /\ nextId' = put.nid
              /\ saved' = AckMsg(saved, put, nextId, user_id, doc_id, "user")
              /\ IF put.exc # "none"
                   THEN /\ req' = [req EXCEPT ![c] =
                                     [r EXCEPT !.status = 500,
                                               !.read = ReadOutcome(user_id, doc_id, f1)]]
                        /\ UNCHANGED genVars
                 ELSE /\ req' = [req EXCEPT ![c] =
                                   [r EXCEPT !.read = ReadOutcome(user_id, doc_id, f1)]]
                      /\ calls' = [calls EXCEPT ![c] = e.call]
                      /\ obs' = Overtake([obs EXCEPT ![c] = e.ob], c, e.call.pc = "invoke")
                      /\ sinceLast' = e.since

\* An id no stored document has: str(uuid4()) of main.py:105
FreshDocIds == { d \in DocIds : \A doc \in StoredDocs : doc.id # d }

\* main.py:97-117  upload_pdf: the document is saved under a fresh id
UploadPdf(user_id, fault) ==
  /\ DocCount < MaxDocs
  /\ FreshDocIds # {}
  /\ LET doc_id == CHOOSE d \in FreshDocIds : TRUE
         res == SaveDocument(useLocal, db, container, nextId, doc_id, user_id,
                             UploadToBlob(env, doc_id, user_id), DocText(DocCount + 1),
                             now, fault)
     IN  /\ db' = res.db
         /\ container' = res.container
         /\ nextId' = res.nid
         /\ saved' = AckText(AckDoc(saved, res, doc_id, user_id), res, doc_id, user_id,
                             DocText(DocCount + 1))
  /\ ret' = NoRet
  /\ UNCHANGED <<now, genVars, req, useLocal, env>>

\* The storage functions called in any order, the I/O never failing
Next ==
  \/ \E d \in DocIds, u \in Users : SaveDocumentCall(d, u, DocText(DocCount + 1), "none")
  \/ \E u \in Users, d \in DocIds : GetDocumentTextCall(u, d, "none")
  \/ \E u \in Users, d \in DocIds, r \in Roles : SaveMessageCall(u, d, r, "none")
  \/ \E u \in Users, d \in DocIds \cup {"", "None"} : GetHistoryCall(u, d, "none")
  \/ \E u \in Users : ListDocumentsCall(u, "none")
  \/ Respond
  \/ Tick

Spec == Init /\ [][Next]_vars

\* The ask and upload handlers and direct calls of the generation client, the
\* I/O of the store failing at will
NextAsk ==
  \/ \E c \in 1..NumAsk, q \in Questions : GetGeminiResponse(c, q)
  \/ \E c \in 1..NumAsk, u \in Users, d \in DocIds, q \in Questions,
          f1 \in ReadFaults, f2 \in Faults :
       AskQuestion(c, u, d, q, f1, f2)
  \/ \E u \in Users, f \in Faults : UploadPdf(u, f)
  \/ \E c \in 1..NumAsk : GateWake(c)
  \/ \E c \in 1..NumAsk, r \in InvokeResults, f \in Faults : AttemptReturn(c, r, f)
  \/ \E c \in 1..NumAsk : BackoffWake(c)
  \/ \E c \in 1..NumAsk : Retire(c)
  \/ Tick

\* The process starts on an empty store
InitAsk ==
  /\ InitGen
  /\ env \in {DevEnv, ProdEnv}
  /\ useLocal = UseLocalMode(env)
  /\ db = EmptyDb
  /\ container = <<>>

SpecAsk == InitAsk /\ [][NextAsk]_vars

\* A run of _invoke returns a text or raises an error that is not a quota error
AskResults ==
  { r \in InvokeResults : r.text # None /\ r.err \in {NoErr, {"Connection", "reset"}} }

\* Concurrent /api/ask requests of one user about the uploaded documents, the
\* writes of the store and the generation service failing at will
NextAsks ==
  \/ \E c \in Calls, d \in DocIds, f2 \in Faults :
       AskQuestion(c, "u1", d, <<"q">>, "none", f2)
  \/ UploadPdf("u1", "none")
  \/ \E c \in Calls : GateWake(c)
  \/ \E c \in Calls, r \in AskResults, f \in Faults : AttemptReturn(c, r, f)
  \/ \E c \in Calls : BackoffWake(c)
  \/ \E c \in Calls : Retire(c)
  \/ Tick

SpecAsks == InitAsk /\ [][NextAsks]_vars

\* The storage functions in a process started in any environment
InitBoot ==
  /\ InitGen
  /\ env \in Envs
  /\ useLocal = UseLocalMode(env)
  /\ db = EmptyDb
  /\ container = <<>>

\* One user calls the storage functions
NextBoot ==
  \/ \E d \in DocIds : SaveDocumentCall(d, "u1", DocText(DocCount + 1), "none")
  \/ \E d \in DocIds : GetDocumentTextCall("u1", d, "none")
  \/ \E d \in DocIds, r \in Roles : SaveMessageCall("u1", d, r, "none")
  \/ \E d \in DocIds \cup {"", "None"} : GetHistoryCall("u1", d, "none")
  \/ Respond
  \/ Tick

SpecBoot == InitBoot /\ [][NextBoot]_vars

\* Uploads and document lists in a process started in any environment, the
\* settings of the blob store included
InitUpload ==
  /\ InitGen
  /\ env \in AllEnvs
  /\ useLocal = UseLocalMode(env)
  /\ db = EmptyDb
  /\ container = <<>>

NextUpload ==
  \/ \E u \in Users : UploadPdf(u, "none")
  \/ \E u \in Users : ListDocumentsCall(u, "none")
  \/ Respond
  \/ Tick

SpecUpload == InitUpload /\ [][NextUpload]_vars

\* ------------------------------------------------- the two backends abreast
\* The same calls made on a process in Local mode and on a process in Remote
\* mode, at the same clock times: db is the file of the first, container the
\* collection of the second, ret holds what the two calls returned.
BothReturned(op, user_id, doc_id, l, r) ==
  [op |-> op, user_id |-> user_id, doc_id |-> doc_id,
   exc |-> <<l.exc, r.exc>>, val |-> <<l.val, r.val>>]

\* The fresh numbers two processes have drawn, counted as one
MaxOf(a, b) == IF a < b THEN b ELSE a

BothSaveDocument(doc_id, user_id, document_text) ==
  /\ ret = NoRet
  /\ Len(db.documents) < MaxDocs
  /\ LET l == SaveDocument(TRUE, db, <<>>, nextId, doc_id, user_id,
                           UploadToBlob(DevEnv, doc_id, user_id), document_text, now, "none")
         r == SaveDocument(FALSE, EmptyDb, container, nextId, doc_id, user_id,
                           UploadToBlob(ProdEnv, doc_id, user_id), document_text, now, "none")
     IN  /\ db' = l.db
         /\ container' = r.container
         /\ nextId' = MaxOf(l.nid, r.nid)
         /\ ret' = BothReturned("both_save_document", user_id, doc_id, l, r)
  /\ UNCHANGED <<now, genVars, req, useLocal, env, saved>>

BothSaveMessage(user_id, doc_id, role, message) ==
  /\ ret = NoRet
  /\ Len(db.messages) < MaxMsgs
  /\ LET l == SaveMessage(TRUE, db, <<>>, nextId, user_id, doc_id, role, message, now, "none")
         r == SaveMessage(FALSE, EmptyDb, container, nextId, user_id, doc_id, role,
                          message, now, "none")
     IN  /\ db' = l.db
         /\ container' = r.container
         /\ nextId' = MaxOf(l.nid, r.nid)
         /\ ret' = BothReturned("both_save_message", user_id, doc_id, l, r)
  /\ UNCHANGED <<now, genVars, req, useLocal, env, saved>>

BothGetHistory(user_id, doc_id) ==
  /\ ret = NoRet
  /\ LET l == GetHistory(TRUE, db, <<>>, nextId, user_id, doc_id, now, "none")
         r == GetHistory(FALSE, EmptyDb, container, nextId, user_id, doc_id, now, "none")
     IN  /\ db' = l.db
         /\ container' = r.container
         /\ nextId' = MaxOf(l.nid, r.nid)
         /\ ret' = BothReturned("both_get_history", user_id, doc_id, l, r)
  /\ UNCHANGED <<now, genVars, req, useLocal, env, saved>>

\* The texts a caller saves under a role: the empty one too
MsgTexts(role) == {<<>>, TextOf(role)}

NextBoth ==
  \/ \E d \in DocIds, u \in Users : BothSaveDocument(d, u, DocText(Len(db.documents) + 1))
  \/ \E u \in Users, d \in DocIds, r \in Roles :
       \E m \in MsgTexts(r) : BothSaveMessage(u, d, r, m)
  \/ \E u \in Users, d \in DocIds : BothGetHistory(u, d)
  \/ Respond
  \/ Tick

\* Both stores start empty
InitBoth ==
  /\ InitGen
  /\ env = DevEnv
  /\ useLocal = UseLocalMode(env)
  /\ db = EmptyDb
  /\ container = <<>>

SpecBoth == InitBoth /\ [][NextBoth]_vars

\* ------------------------------------------------------ the normalizer alone
\* The seconds and the UTC offsets the timestamps show
TsVals == (0 - 1)..MaxTs
TsOffs == (0 - 1)..1

\* The values _normalize_timestamp is called with
TsInputs ==
  { Ts(k, 0, 0) : k \in {"none", "empty", "garbage", "num_big", "num_nan",
                          "numstr_big", "numstr_nan"} }
    \cup { Ts(k, v, 0) : k \in {"num", "iso_z", "numstr"}, v \in TsVals }
    \cup { Ts(k, v, o) : k \in {"iso_off", "iso_naive"}, v \in TsVals, o \in TsOffs }

\* local_storage.py:188 and :220, cosmos.py:213 and :230  a call of
\* _normalize_timestamp(value); ret holds the argument and the result
NormalizeCall(value) ==
  /\ ret = NoRet
  /\ LET n == NormalizeTimestamp(value, now)
     IN  ret' = [op |-> "normalize_timestamp", user_id |-> "None", doc_id |-> "None",
                 exc |-> n.exc, val |-> <<value, n.ts>>]
  /\ UNCHANGED <<now, genVars, req, useLocal, env, storeVars>>

\* local_storage.py:189-191 writes the result back into the entry, and the
\* next get_history hands it to _normalize_timestamp again, at clock second
\* later: ret holds the argument, the first outcome and the second one with
\* its clock second (an exception of the first call leaves no value to hand on)
NormalizeAgainCall(value, later) ==
  /\ ret = NoRet
  /\ later >= now
  /\ LET first == NormalizeTimestamp(value, now)
         again == IF first.exc # "none" THEN first
                  ELSE NormalizeTimestamp(first.ts, later)
         second == [exc |-> again.exc, ts |-> again.ts, at |-> later]
     IN  ret' = [op |-> "normalize_again", user_id |-> "None", doc_id |-> "None",
                 exc |-> second.exc, val |-> <<value, first, second>>]
  /\ UNCHANGED <<now, genVars, req, useLocal, env, storeVars>>

NextNorm ==
  \/ \E value \in TsInputs : NormalizeCall(value)
  \/ \E value \in TsInputs, later \in 0..MaxTime : NormalizeAgainCall(value, later)
  \/ Respond
  \/ Tick

SpecNorm == InitBoth /\ [][NextNorm]_vars

\* ------------------------------------------------ the generation client alone
NextGen ==
  \/ \E c \in Calls, q \in Questions : GetGeminiResponse(c, q)
  \/ \E c \in Calls : GateWake(c)
  \/ \E c \in Calls, r \in InvokeResults : AttemptReturn(c, r, "none")
  \/ \E c \in Calls : BackoffWake(c)
  \/ \E c \in Calls : Retire(c)
  \/ Tick

\* The storage backend plays no part in it
InitGenOnly ==
  /\ InitGen
  /\ env = DevEnv
  /\ useLocal = UseLocalMode(env)
  /\ db = EmptyDb
  /\ container = <<>>

SpecGen == InitGenOnly /\ [][NextGen]_vars

\* The event loop resumes a sleeper whose time has come, time passes, and a
\* call of the generation service comes back
FairGen ==
  /\ WF_vars(Tick)
  /\ \A c \in Calls : WF_vars(GateWake(c))
  /\ \A c \in Calls : WF_vars(BackoffWake(c))
  /\ \A c \in Calls : WF_vars(\E r \in InvokeResults : AttemptReturn(c, r, "none"))

SpecGenLive == InitGenOnly /\ [][NextGen]_vars /\ FairGen

\* ------------------------------------------------------------------ claims
Passed(c) == obs[c].gateAge >= 0

\* C1: two concurrent calls never pass the rate-limit gate less than
\* _min_request_interval apart: when a call has just passed the gate, every
\* other call in progress that passed it did so at least that long ago.
C1_GateSerialized ==
  \A a, b \in Calls :
    (a # b /\ Passed(a) /\ obs[b].gateAge = 0) => obs[a].gateAge >= min_request_interval

\* The messages of the active backend, in stored order
StoredMsgs == IF useLocal THEN db.messages ELSE SelectSeq(container, IsMsgItem)

\* The id under which the active backend stores the message of a save call
\* that drew the fresh number n
MsgId(m) == IF useLocal THEN m.n ELSE <<m.doc_id, m.role, m.n>>

\* C2: on the Local backend, under every interleaving of save_document,
\* save_message and get_history calls, the file stays a complete JSON document
\* and every record whose save call returned is still in it, exactly as often
\* as it was saved (a message once): no update is lost.
C2_NoLostUpdate ==
  useLocal =>
    /\ db.valid
    /\ \A d \in saved.docs :
         \E i \in 1..Len(db.documents) :
           db.documents[i].id = d.id /\ db.documents[i].user_id = d.user_id
    /\ \A m \in saved.msgs :
         Cardinality({ i \in 1..Len(db.messages) :
                        /\ db.messages[i].id = m.n
                        /\ db.messages[i].user_id = m.user_id
                        /\ db.messages[i].doc_id = m.doc_id
                        /\ db.messages[i].role = m.role }) = 1
    /\ Len(db.documents) >= Cardinality(saved.docs)
    /\ Len(db.messages) >= Cardinality(saved.msgs)

\* A get_history has rewritten the file (an entry without id got one) while
\* a saved document and a saved message are in it
C2_Witness ==
  /\ useLocal
  /\ ret.op = "get_history"
  /\ ret.exc = "none"
  /\ saved.docs # {}
  /\ saved.msgs # {}
  /\ \E i \in 1..Len(db.messages) :
       /\ db.messages[i].content = <<"q">>
       /\ db.messages[i].message = <<"q">>
       /\ db.messages[i].id # 0

\* C3: get_document_text(u, d) raises the not-found error whenever no
\* document with id d was saved under u, also when another user owns a
\* document with that id; a text it returns is the text of a document stored
\* under u with id d.
C3_OwnerIsolation ==
  ret.op = "get_document_text" =>
    /\ [id |-> ret.doc_id, user_id |-> ret.user_id] \notin saved.docs =>
         ret.exc = "ValueError"
    /\ ret.exc = "none" =>
         \E doc \in StoredDocs :
           /\ doc.id = ret.doc_id
           /\ doc.user_id = ret.user_id
           /\ doc.document_text = ret.val

\* Not found, although another user owns a document with that id
C3_Witness ==
  /\ ret.op = "get_document_text"
  /\ ret.exc = "ValueError"
  /\ \E doc \in StoredDocs : doc.id = ret.doc_id /\ doc.user_id # ret.user_id

\* C4: an ask request is answered 404 exactly when the store was read and
\* holds no document for (user_id, doc_id); a read that failed is answered
\* 500, never 404.
C4_NotFoundDistinct ==
  \A c \in 1..NumAsk :
    (req[c].handler = "ask" /\ req[c].read # "none") =>
      /\ (req[c].status = 404) <=> (req[c].read = "missing")
      /\ req[c].read = "failed" => req[c].status = 500

\* The backoff slept before attempt number n (counted from 0) is dispatched:
\* the sum of base_delay * 2^k for k = 0 .. n-1
RECURSIVE ScheduleSum(_)
ScheduleSum(n) == IF n = 0 THEN 0 ELSE ScheduleSum(n - 1) + base_delay * Pow2(n - 1)

Running(c) == calls[c].pc \in {"rl_sleep", "invoke", "backoff"}

Ended(c) == calls[c].pc = "done" /\ calls[c].outcome # "value_error"

C5_Bounded ==
  \A c \in Calls :
    /\ obs[c].inflight \in {0, 1}
    /\ obs[c].invocations <= max_retries
    /\ Ended(c) =>
         /\ calls[c].outcome \in {"success", "quota_exhausted", "generation_failed"}
         /\ obs[c].invocations >= 1
         /\ obs[c].inflight = 0

\* C5: a call with a non-empty question ends, whatever the external call
\* does, in success, quota-exhausted or generation-failed, after 1 to
\* max_retries invocations, never two of them at once.
C5_Terminates ==
  /\ []C5_Bounded
  /\ \A c \in Calls : Running(c) ~> Ended(c)

C5_Witness ==
  \E c \in Calls :
    Ended(c) /\ obs[c].invocations = max_retries /\ calls[c].outcome = "generation_failed"

\* The words that make an error text a quota error
QuotaWords == {"429", "RESOURCE_EXHAUSTED", "Too Many Requests", "quota", "Quota", "QUOTA"}

Failed(c) ==
  calls[c].pc = "done" /\ calls[c].outcome \in {"quota_exhausted", "generation_failed"}

\* C6: a call whose attempts all failed ends quota-exhausted exactly when the
\* error of its final attempt has a quota signature, and generation-failed
\* with that error otherwise, whatever the earlier attempts failed with.
C6_FinalAttemptDecides ==
  \A c \in Calls :
    Failed(c) =>
      /\ obs[c].invocations = max_retries
      /\ calls[c].err \in ErrorMsgs
      /\ (calls[c].outcome = "quota_exhausted") <=> (calls[c].err \cap QuotaWords # {})

\* The earlier attempts were not all of the final attempt's kind
C6_Witness ==
  \E c \in Calls :
    /\ Failed(c)
    /\ calls[c].outcome = "generation_failed"
    /\ obs[c].quotaFails = max_retries - 1

C8_SuccessReturns ==
  \A c \in Calls :
    calls[c].outcome = "success" =>
      /\ calls[c].pc = "done"
      /\ calls[c].timer = 0
      /\ obs[c].inflight = 0
      /\ obs[c].invocations = calls[c].attempt + 1
      /\ obs[c].slept = ScheduleSum(calls[c].attempt)
      /\ obs[c].resp \in {None, <<>>} => calls[c].text = <<>>
      /\ obs[c].resp = <<" ", "a", " ">> => calls[c].text = <<"a">>

\* An empty response on the second attempt
C8_Witness ==
  \E c \in Calls :
    /\ calls[c].outcome = "success"
    /\ calls[c].attempt = 1
    /\ obs[c].resp = None
    /\ calls[c].text = <<>>

\* Each element's timestamp is at most the next one's
Ascending(list) ==
  \A i \in 1..(Len(list) - 1) : TsKey(list[i].timestamp) <= TsKey(list[i + 1].timestamp)

\* C9: whatever the stored timestamps of the messages of (user_id, doc_id)
\* and the order they were stored in, get_history(user_id, doc_id) returns a
\* list, ascending by normalized timestamp.
C9_SortedHistory ==
  (ret.op = "get_history" /\ ~IsFalsy(ret.doc_id)) =>
    (ret.exc = "none" /\ Ascending(ret.val))

\* The stored messages of the pair a get_history call was made for
StoredFor(user_id, doc_id) ==
  { i \in 1..Len(StoredMsgs) :
      StoredMsgs[i].user_id = user_id /\ StoredMsgs[i].doc_id = doc_id }

\* C10: get_history(u, d) with a non-empty d returns exactly the messages
\* stored for (u, d): as many elements as there are such messages, none of
\* another user or document, every message saved for (u, d) exactly once with
\* its role and text; and it does return when all of them come from
\* save_message, whether or not a document d exists.
C10_ExactHistory ==
  (ret.op = "get_history" /\ ~IsFalsy(ret.doc_id)) =>
    LET mine == { m \in saved.msgs : m.user_id = ret.user_id /\ m.doc_id = ret.doc_id }
        stored == StoredFor(ret.user_id, ret.doc_id)
    IN  /\ Cardinality(stored) = Cardinality(mine) => ret.exc = "none"
        /\ ret.exc = "none" =>
             /\ Len(ret.val) = Cardinality(stored)
             /\ \A i \in 1..Len(ret.val) :
                  ret.val[i].user_id = ret.user_id /\ ret.val[i].doc_id = ret.doc_id
             /\ \A m \in mine :
                  Cardinality({ i \in 1..Len(ret.val) :
                                 /\ ret.val[i].id = MsgId(m)
                                 /\ ret.val[i].role = m.role
                                 /\ ret.val[i].content = TextOf(m.role) }) = 1

\* The one message of a pair whose document was never saved comes back, a
\* message of another user or document staying behind
C10_Witness ==
  /\ ret.op = "get_history"
  /\ ret.exc = "none"
  /\ Len(ret.val) = 1
  /\ Cardinality(saved.msgs) = 2
  /\ \A doc \in StoredDocs : doc.id # ret.doc_id

\* The documents of the active backend, in stored order
StoredDocSeq == IF useLocal THEN db.documents ELSE SelectSeq(container, IsDocItem)

\* A step keeps every stored record: none is deleted or moved, and of a
\* record that was there only the timestamp may differ afterwards
KeepsRecords ==
  /\ Len(StoredMsgs') >= Len(StoredMsgs)
  /\ \A i \in 1..Len(StoredMsgs) :
       StoredMsgs'[i] = [StoredMsgs[i] EXCEPT !.timestamp = StoredMsgs'[i].timestamp]
  /\ Len(StoredDocSeq') >= Len(StoredDocSeq)
  /\ \A i \in 1..Len(StoredDocSeq) :
       StoredDocSeq'[i] = [StoredDocSeq[i] EXCEPT !.created_at = StoredDocSeq'[i].created_at]

\* C11: the store is append-only: no call of save_document, save_message,
\* get_document_text or get_history deletes a stored document or message, and
\* the only field of a stored record that a call changes is its timestamp
\* (timestamp / created_at).
C11_AppendOnly == [][KeepsRecords]_vars

\* C12: once save_document(d, u, ..., text) has returned, every later
\* get_document_text(u, d) returns exactly text, whatever was saved and read
\* in between.
C12_RoundTrip ==
  ret.op = "get_document_text" =>
    \A s \in saved.texts :
      (s.id = ret.doc_id /\ s.user_id = ret.user_id) =>
        (ret.exc = "none" /\ ret.val = s.text)

\* C13: in every reachable state of the store at most one document is stored
\* for any (user_id, id), also after save_document calls that repeat an id
\* for the same user.
C13_UniqueDocument ==
  \A i, j \in 1..Len(StoredDocSeq) :
    (StoredDocSeq[i].user_id = StoredDocSeq[j].user_id /\ StoredDocSeq[i].id = StoredDocSeq[j].id)
      => i = j

\* C14: every storage operation is served by the Remote backend exactly when
\* all four settings were present and non-empty at process start, by the
\* Local backend otherwise; the backend that is not selected is never touched.
C14_BackendSelection ==
  /\ ret.op # "none" => ((~useLocal) <=> (env.present = Settings))
  /\ env.present = Settings => db = EmptyDb
  /\ env.present # Settings => container = <<>>

\* Two history lists alike but for the identifiers the backends made up
SameHistory(a, b) ==
  /\ Len(a) = Len(b)
  /\ \A i \in 1..Len(a) :
       /\ DOMAIN a[i] = DOMAIN b[i]
       /\ a[i].user_id = b[i].user_id
       /\ a[i].doc_id = b[i].doc_id
       /\ a[i].role = b[i].role
       /\ a[i].content = b[i].content
       /\ a[i].type = b[i].type

C16_ListEqualsHistory ==
  ret.op = "list_documents" =>
    LET h == GetHistory(useLocal, db, container, nextId, ret.user_id, "None", now, "none")
    IN  /\ ret.exc = h.exc
        /\ ret.val = h.val
        /\ ret.exc = "none" =>
             \A i \in 1..Len(ret.val) : "document_text" \notin DOMAIN ret.val[i]

\* A request arrives on task c
Arrives(c, handler) == req[c].handler = "idle" /\ req'[c].handler = handler

\* What the step that takes an empty question does
RejectsEmpty ==
  \A c \in 1..NumAsk :
    /\ (Arrives(c, "gen") /\ req'[c].question = <<>>) =>
         /\ calls'[c].pc = "done"
         /\ calls'[c].outcome = "value_error"
         /\ calls'[c].timer = 0
         /\ sinceLast' = sinceLast
         /\ obs'[c] = obs[c]
    /\ (Arrives(c, "ask") /\ req'[c].question = <<>>) =>
         /\ req'[c].status = 400
         /\ req'[c].read = "none"
         /\ calls'[c] = calls[c]
         /\ UNCHANGED <<sinceLast, obs, storeVars>>

\* A rejected call has made no external call and makes none
StaysRejected ==
  \A c \in 1..NumAsk :
    /\ calls[c].outcome = "value_error" =>
         calls[c].pc = "done" /\ obs[c].invocations = 0 /\ obs[c].rlSlept = 0
    /\ req[c].status = 400 =>
         calls[c].pc = "idle" /\ obs[c].invocations = 0

\* C17: an empty or blank question is rejected before anything else:
\* get_gemini_response raises without waiting at the gate, without touching
\* _last_request_time and without any external call or retry; ask_question
\* answers 400 before reading the document and before saving a message.
C17_EmptyRejectedFirst == []StaysRejected /\ [][RejectsEmpty]_vars

\* A blank question asked about a stored document while the gate is closed
C17_Witness ==
  \E c \in 1..NumAsk :
    /\ req[c].status = 400
    /\ sinceLast < min_request_interval
    /\ \E doc \in StoredDocs : doc.id = req[c].doc_id /\ doc.user_id = req[c].user_id

\* A step that stores a message belongs to an ask request whose generation
\* call has returned its text
SavesOnlyAfterGeneration ==
  Len(StoredMsgs') > Len(StoredMsgs) =>
    \E c \in 1..NumAsk :
      /\ req'[c].handler = "ask"
      /\ calls'[c].pc = "done"
      /\ calls'[c].outcome = "success"

\* C18: an ask request reads the document, then calls the generation
\* service, then saves the user's and the assistant's message: no message of
\* the request is stored before the generation call has returned.
C18_AskOrder == [][SavesOnlyAfterGeneration]_vars

\* What a call does at the rate-limit check and when it passes the gate
WaitsTheDifference ==
  \A b \in Calls :
    /\ (calls[b].pc = "idle" /\ calls'[b].pc = "rl_sleep") =>
         /\ sinceLast < min_request_interval
         /\ calls'[b].timer = min_request_interval - sinceLast
         /\ sinceLast' = sinceLast
    /\ (calls[b].pc = "idle" /\ calls'[b].pc = "invoke") =>
         /\ sinceLast >= min_request_interval
         /\ obs'[b].rlSlept = 0
    /\ (calls[b].pc = "rl_sleep" /\ calls'[b].pc = "invoke" /\ ~obs[b].overtaken) =>
         /\ sinceLast >= min_request_interval
         /\ calls[b].timer = 0
    /\ (calls[b].pc # "invoke" /\ calls'[b].pc = "invoke" /\ calls'[b].attempt = 0) =>
         sinceLast' = 0

\* C19: a call B that reaches the rate-limit check after a call A passed the
\* gate, no other call passing between A and B, passes it no earlier than
\* _min_request_interval after A did: it sleeps the remaining difference, and
\* not at all when the interval has elapsed.
C19_SequentialRateLimit == [][WaitsTheDifference]_vars

\* B came one second after A, slept one second and has just passed the gate
C19_Witness ==
  \E a, b \in Calls :
    /\ a # b
    /\ obs[b].rlSlept = 1
    /\ obs[b].gateAge = 0
    /\ ~obs[b].overtaken
    /\ obs[a].gateAge = min_request_interval

\* C20: _normalize_timestamp returns a canonical UTC string of whole seconds
\* and never raises, whatever it is given: None, a blank string, any number,
\* an ISO-8601 string with or without zone, a numeric string, any other
\* string.
C20_NormalizeTotal ==
  ret.op = "normalize_timestamp" =>
    /\ ret.exc = "none"
    /\ ret.val[2].kind = "iso_z"

KeepsFileWhole ==
  useLocal /\ db.valid =>
    /\ db'.valid
    /\ Len(db'.documents) >= Len(db.documents)
    /\ Len(db'.messages) >= Len(db.messages)

\* C22: the Local backend never leaves a partial write: after a save, whether
\* the write of the file succeeded or failed part-way, the file holds the
\* complete state before the operation or the complete state after it, and
\* everything stored before is still readable.
C22_NoPartialWrite == [][KeepsFileWhole]_vars

\* The read of the document failed in the request on task c
ReadFailed(r) == r.handler = "ask" /\ r.read \in {"failed", "missing"}

\* What the step that takes such a request does
FailedReadTouchesNothing ==
  \A c \in 1..NumAsk :
    (Arrives(c, "ask") /\ ReadFailed(req'[c])) =>
      /\ req'[c].status \in {404, 500}
      /\ calls'[c] = calls[c]
      /\ UNCHANGED <<sinceLast, obs, storeVars>>

\* Such a request makes no generation call afterwards either
FailedReadStaysIdle ==
  \A c \in 1..NumAsk :
    ReadFailed(req[c]) =>
      /\ req[c].status \in {404, 500}
      /\ calls[c].pc = "idle"
      /\ obs[c].invocations = 0
      /\ req[c].answer = <<>>

\* C23: an ask_question request whose get_document_text fails (the document
\* is not found for that user, or the read fails) persists no message: the
\* store is unchanged by the request, the generation call is never made and
\* the rate-limit state is not touched.
C23_FailedReadNoEffect == []FailedReadStaysIdle /\ [][FailedReadTouchesNothing]_vars

\* A question about a document that another user owns, asked while the gate
\* is closed
C23_Witness ==
  \E c \in 1..NumAsk :
    /\ ReadFailed(req[c])
    /\ req[c].read = "missing"
    /\ req[c].status = 404
    /\ sinceLast < min_request_interval
    /\ \E doc \in StoredDocs : doc.id = req[c].doc_id /\ doc.user_id # req[c].user_id

\* The stored messages of one role that belong to one user and document
CountOf(role, user_id, doc_id) ==
  Cardinality({ i \in 1..Len(StoredMsgs) :
                  /\ StoredMsgs[i].role = role
                  /\ StoredMsgs[i].user_id = user_id
                  /\ StoredMsgs[i].doc_id = doc_id })

\* No pair has more answers stored than questions
AnswersWithinQuestions ==
  \A u \in Users, d \in DocIds : CountOf("assistant", u, d) <= CountOf("user", u, d)

\* A step that stores an answer is the return of a generation call that
\* succeeded, made for a request about that pair
AnswerOnlyAfterSuccess ==
  \A u \in Users, d \in DocIds :
    CountOf("assistant", u, d)' > CountOf("assistant", u, d) =>
      \E c \in Calls :
        /\ req[c].handler = "ask" /\ req[c].user_id = u /\ req[c].doc_id = d
        /\ calls[c].pc = "invoke"
        /\ calls'[c].pc = "done"
        /\ calls'[c].outcome = "success"

\* C24: whatever concurrent ask_question requests do, with any mix of
\* generation successes, generation failures and storage failures, each
\* (user_id, doc_id) has at most as many assistant messages stored as user
\* messages, and an assistant message is stored only for a request whose
\* generation call succeeded.
C24_AnswersFollowQuestions == []AnswersWithinQuestions /\ [][AnswerOnlyAfterSuccess]_vars

\* Two requests about one document were in flight together; one was answered
\* and its answer stored, the generation call of the other failed
C24_Witness ==
  /\ req[1].handler = "ask" /\ req[2].handler = "ask"
  /\ req[1].doc_id = req[2].doc_id
  /\ calls[1].pc = "done" /\ calls[1].outcome = "success" /\ req[1].status = 200
  /\ calls[2].pc = "done" /\ calls[2].outcome # "success"
  /\ CountOf("user", "u1", req[1].doc_id) = 2
  /\ CountOf("assistant", "u1", req[1].doc_id) = 1

\* Every record of the Local file is as save_document and save_message of
\* this code write it: an id, the type, the text under "content", a canonical
\* timestamp
WellFormed ==
  /\ db.valid
  /\ \A i \in 1..Len(db.messages) :
       /\ db.messages[i].id # 0
       /\ db.messages[i].type = "message"
       /\ db.messages[i].content # None
       /\ db.messages[i].message = None
       /\ db.messages[i].timestamp.kind = "iso_z"
  /\ \A i \in 1..Len(db.documents) :
       /\ db.documents[i].type = "document"
       /\ db.documents[i].created_at.kind = "iso_z"

\* get_history(user_id, doc_id) called now or later on the present file, any
\* write of the file failing part-way: it returns, and the file and the id
\* counter are as before, so it has not written
ReadsOnly(user_id, doc_id) ==
  \A t \in now..MaxTime :
    LET h == LocalGetHistory(db, container, nextId, user_id, doc_id, t, "partial_write")
    IN  h.exc = "none" /\ h.db = db /\ h.nid = nextId

\* The same call returns the list that ret holds
ReturnsSame(user_id, doc_id) ==
  \A t \in now..MaxTime :
    LocalGetHistory(db, container, nextId, user_id, doc_id, t, "none").val = ret.val

\* C25: on the Local backend get_history is read-only for well-formed data:
\* when every stored record was created by save_document or save_message of
\* this code, get_history, with or without doc_id, writes nothing and leaves
\* the documents and messages unchanged; and after a get_history that healed
\* malformed records, the same call repeated writes nothing and returns the
\* same list.
C25_ReadOnlyHistory ==
  useLocal =>
    /\ WellFormed =>
         \A u \in Users, d \in DocIds \cup {"", "None"} : ReadsOnly(u, d)
    /\ ret.op = "get_history" /\ ret.exc = "none" =>
         ReadsOnly(ret.user_id, ret.doc_id) /\ ReturnsSame(ret.user_id, ret.doc_id)

\* get_history has returned a message that it found without id and with its
\* text under the legacy key, and has written the repaired entry to the file
C25_Witness ==
  /\ useLocal
  /\ ret.op = "get_history" /\ ret.exc = "none"
  /\ ~WellFormed
  /\ \E i \in 1..Len(db.messages) :
       /\ db.messages[i].message # None
       /\ db.messages[i].id # 0
       /\ db.messages[i].content = db.messages[i].message
       /\ \E j \in 1..Len(ret.val) : ret.val[j].id = db.messages[i].id

\* The PDF bytes of a stored document are in a local file
BytesLocal(doc) == doc.blob_url[1] = "file"

\* C26: in every configuration the blob/file store and the document/message
\* store select the same mode: the bytes of a document are stored locally if
\* and only if its record is stored in the Local backend, so no record pairs
\* a local file reference with the Remote backend or a remote blob with the
\* Local backend.
C26_SameMode ==
  \A i \in 1..Len(StoredDocSeq) :
    /\ StorageUseLocalMode(env) <=> useLocal
    /\ BytesLocal(StoredDocSeq[i]) <=> useLocal

====
